---- MODULE Spec2Model ----
(***************************************************************************)
(* Vex.Flow.Backend.MusicXML (src/src/musicxml.js): ingestion of a         *)
(* partwise MusicXML DOM into the measure grid, the attribute snapshots    *)
(* and the stave counts (parse, parseAttributes), and the on-demand        *)
(* materialisation of measures (getMeasure, parseNote, getAttributes).     *)
(*                                                                         *)
(* JavaScript arrays are 0-based; sequences here are 1-based, so the       *)
(* element with JavaScript index k of an array a is a[k + 1].  An optional *)
(* value (a property that may be undefined, an element that may be         *)
(* missing, a text that parseInt may turn into NaN) is a sequence of       *)
(* length 0 or 1.                                                          *)
(***************************************************************************)
EXTENDS Integers, Sequences, FiniteSets, TLC

VARIABLES doc, pc, measures, numStaves, attributes, valid, last, first

vars == <<doc, pc, measures, numStaves, attributes, valid, last, first>>

\* Bounds of the explored documents.
MaxParts == 2
MaxChildren == 3
MaxMeasures == 3
MaxNotes == 3

None == <<>>
Some(x) == <<x>>

SeqsUpTo(S, n) == UNION {[1..k -> S] : k \in 0..n}

Max(S) == CHOOSE x \in S : \A y \in S : y <= x

(***************************************************************************)
(* The DOM.  A node is a record; only the parts of it the backend reads    *)
(* are kept.  A text of an element read through parseInt is modelled by    *)
(* its parsed value: Some(n), or None for a text that is not a number.     *)
(***************************************************************************)
\* A child of an <attributes> element.
Elem(name, number, sign, a, b) ==
  [nodeName |-> name, number |-> number, sign |-> sign, a |-> a, b |-> b]
StavesElem(n) == Elem("staves", None, "", n, 0)
KeyElem(fifths) == Elem("key", None, "", fifths, 0)
TimeElem(beats, beatType) == Elem("time", None, "", beats, beatType)
ClefElem(number, sign, line) == Elem("clef", number, sign, line, 0)
DivisionsElem(n) == Elem("divisions", None, "", n, 0)
TransposeElem == Elem("transpose", None, "", 0, 0)

\* A <note> element: pitch is the key its <pitch> child spells, rest is
\* None (no <rest>), Some(None) (a <rest> without display step/octave) or
\* Some(Some(key)); voice and staff are None (no element) or Some(text);
\* tied is None (no <tied>), Some(None) (<tied> without a type attribute)
\* or Some(Some(type)).
NoteElem(pitch, rest, chord, voice, staff, tied) ==
  [pitch |-> pitch, rest |-> rest, chord |-> chord, voice |-> voice,
   staff |-> staff, tied |-> tied]

\* A child of a <part>: a <measure> with its first <attributes> block
\* (None when it has none) and its <note> elements, or another node.
MeasureNode(attrs, notes) ==
  [nodeName |-> "measure", attributes |-> attrs, notes |-> notes]
TextNode == [nodeName |-> "#text", attributes |-> None, notes |-> <<>>]

\* A child of the document element.
PartNode(children) == [nodeName |-> "part", childNodes |-> children]
PartListNode == [nodeName |-> "part-list", childNodes |-> <<>>]

Document(root, children) == [nodeName |-> root, childNodes |-> children]

(***************************************************************************)
(* JavaScript arrays of clef names; a hole or an undefined element is      *)
(* "undefined", JavaScript null is "null".                                 *)
(***************************************************************************)
\* new Array(n): n holes; new Array(undefined) is the array [undefined].
NewArray(n) ==
  IF n = None THEN <<"undefined">> ELSE [i \in 1..n[1] |-> "undefined"]

\* arr[idx] = v, growing the array when idx is beyond its end.
ArraySet(arr, idx, v) ==
  [i \in 1..(IF idx + 1 > Len(arr) THEN idx + 1 ELSE Len(arr)) |->
     IF i = idx + 1 THEN v
     ELSE IF i <= Len(arr) THEN arr[i] ELSE "undefined"]

\* arr[idx] for idx an optional index: undefined when idx is undefined or
\* outside the array.
ArrayGet(arr, idx) ==
  IF idx = None THEN "undefined"
  ELSE IF idx[1] >= 0 /\ idx[1] < Len(arr) THEN arr[idx[1] + 1]
  ELSE "undefined"

ScalarClef(c) == [isArray |-> FALSE, v |-> <<c>>]
ArrayClef(a) == [isArray |-> TRUE, v |-> a]

\* this.numStaves[partNum], None when the index is not in the array.
StavesOf(ns, partNum) ==
  IF partNum \in DOMAIN ns THEN Some(ns[partNum]) ELSE None

(***************************************************************************)
(* parseAttributes: one step per child of the <attributes> element.        *)
(* st = [numStaves, attributes]; attributes maps <<measure, part>> to the  *)
(* snapshot stored there, a function from child names to values.           *)
(***************************************************************************)
clefName(sign, line) ==
  IF sign = "G" /\ line = 2 THEN "treble"
  ELSE IF sign = "F" /\ line = 4 THEN "bass"
  ELSE "null"

clefObject(st, measureNum, partNum, attr) ==
  LET clef == clefName(attr.sign, attr.a)
      at == <<measureNum, partNum>>
  IN IF attr.number # None /\ attr.number[1] > 0
     THEN LET base == IF /\ at \in DOMAIN st.attributes
                         /\ "clef" \in DOMAIN st.attributes[at]
                         /\ st.attributes[at]["clef"].isArray
                      THEN st.attributes[at]["clef"].v
                      ELSE NewArray(StavesOf(st.numStaves, partNum))
          IN ArrayClef(ArraySet(base, attr.number[1] - 1, clef))
     ELSE ScalarClef(clef)

attrObject(st, measureNum, partNum, attr) ==
  CASE attr.nodeName = "staves" -> "null"
    [] attr.nodeName = "key" -> [fifths |-> attr.a]
    [] attr.nodeName = "time" -> [num_beats |-> attr.a, beat_value |-> attr.b]
    [] attr.nodeName = "clef" -> clefObject(st, measureNum, partNum, attr)
    [] attr.nodeName = "divisions" -> attr.a

KnownAttrs == {"staves", "key", "time", "clef", "divisions"}

parseAttribute(st, measureNum, partNum, attr) ==
  IF attr.nodeName \notin KnownAttrs THEN st
  ELSE LET at == <<measureNum, partNum>>
           ns == IF attr.nodeName = "staves" /\ measureNum = 0
                 THEN (partNum :> attr.a) @@ st.numStaves
                 ELSE st.numStaves
           old == IF at \in DOMAIN st.attributes THEN st.attributes[at]
                  ELSE <<>>
           obj == attrObject(st, measureNum, partNum, attr)
       IN [numStaves |-> ns,
           attributes |-> (at :> ((attr.nodeName :> obj) @@ old))
                            @@ st.attributes]

RECURSIVE parseAttributesFrom(_, _, _, _, _)
parseAttributesFrom(st, measureNum, partNum, attrs, i) ==
  IF i > Len(attrs) THEN st
  ELSE parseAttributesFrom(parseAttribute(st, measureNum, partNum, attrs[i]),
                           measureNum, partNum, attrs, i + 1)

parseAttributes(st, measureNum, partNum, attrs) ==
  parseAttributesFrom(st, measureNum, partNum, attrs, 1)

(***************************************************************************)
(* parse: the scan of the parts and of their measures.                     *)
(* st = [measures, numStaves, attributes, returned]; measures is the grid, *)
(* a sequence of rows, each the sequence of the measure elements (named by *)
(* <<i, j>>, the child indices of the part and of the measure) of the      *)
(* parts 0, 1, ...; returned is TRUE after the early return.               *)
(***************************************************************************)
\* "j in this.measures" for an array index j.
InMeasures(ms, j) == j < Len(ms)

\* this.measures[measureNum] = new Array()
ResetRow(ms, measureNum) ==
  [k \in 1..(IF measureNum + 1 > Len(ms) THEN measureNum + 1 ELSE Len(ms)) |->
     IF k = measureNum + 1 THEN <<>> ELSE ms[k]]

parseMeasure(st, i, j, measure, partNum, measureNum) ==
  LET ms1 == IF ~InMeasures(st.measures, j)
             THEN ResetRow(st.measures, measureNum)
             ELSE st.measures
  IN IF Len(ms1[measureNum + 1]) # partNum
     THEN [st EXCEPT !.measures = ms1, !.returned = TRUE]
     ELSE LET ms2 == [ms1 EXCEPT ![measureNum + 1] = Append(@, <<i, j>>)]
              at == IF measure.attributes # None
                    THEN parseAttributes(
                           [numStaves |-> st.numStaves,
                            attributes |-> st.attributes],
                           measureNum, partNum, measure.attributes[1])
                    ELSE [numStaves |-> st.numStaves,
                          attributes |-> st.attributes]
          IN [measures |-> ms2, numStaves |-> at.numStaves,
              attributes |-> at.attributes, returned |-> FALSE]

RECURSIVE parsePartFrom(_, _, _, _, _, _)
parsePartFrom(st, i, node, partNum, j, measureNum) ==
  IF st.returned THEN st
  ELSE IF j >= Len(node.childNodes)
  THEN \* numStaves defaults to 1 for this part
       IF partNum \in DOMAIN st.numStaves THEN st
       ELSE [st EXCEPT !.numStaves = (partNum :> 1) @@ @]
  ELSE LET measure == node.childNodes[j + 1]
       IN IF measure.nodeName # "measure"
          THEN parsePartFrom(st, i, node, partNum, j + 1, measureNum)
          ELSE parsePartFrom(
                 parseMeasure(st, i, j, measure, partNum, measureNum),
                 i, node, partNum, j + 1, measureNum + 1)

RECURSIVE parseFrom(_, _, _, _)
parseFrom(st, root, i, partNum) ==
  IF st.returned \/ i >= Len(root.childNodes) THEN st
  ELSE LET node == root.childNodes[i + 1]
       IN IF node.nodeName = "part"
          THEN parseFrom(parsePartFrom(st, i, node, partNum, 0, 0),
                         root, i + 1, partNum + 1)
          ELSE parseFrom(st, root, i + 1, partNum)

parse(data) ==
  parseFrom([measures |-> measures, numStaves |-> numStaves,
             attributes |-> attributes, returned |-> FALSE], data, 0, 0)

(***************************************************************************)
(* getAttributes: the snapshots of part p at measures 0..m, merged in      *)
(* order into one object.                                                  *)
(***************************************************************************)
\* Vex.Merge(destination, source): every property of source is copied onto
\* destination.
Merge(destination, source) == source @@ destination

\* The object the snapshots are merged into ("var attrs = {}"): None is a
\* new object, Some(at) would be the snapshot stored at `at`.
attrsAliasFirst(m, p) ==
  LET S == {i \in 0..m : <<i, p>> \in DOMAIN attributes}
  IN IF S = {} THEN None
     ELSE Some(<<CHOOSE i \in S : \A k \in S : i <= k, p>>)

attrsObject(m, p) == None

RECURSIVE mergeSnapshots(_, _, _, _)
mergeSnapshots(attrs, i, m, p) ==
  IF i > m THEN attrs
  ELSE IF <<i, p>> \notin DOMAIN attributes
  THEN mergeSnapshots(attrs, i + 1, m, p)
  ELSE mergeSnapshots(Merge(attrs, attributes[<<i, p>>]), i + 1, m, p)

getAttributesBefore(m, p) ==
  mergeSnapshots(IF attrsObject(m, p) = None THEN <<>>
                 ELSE attributes[attrsObject(m, p)[1]], 0, m - 1, p)

getAttributes(m, p) ==
  mergeSnapshots(IF attrsObject(m, p) = None THEN <<>>
                 ELSE attributes[attrsObject(m, p)[1]], 0, m, p)

\* this.attributes once getAttributes(m, p) has run: what it merged into is
\* changed, and nothing else.
attributesAfter(m, p) ==
  IF attrsObject(m, p) = None THEN attributes
  ELSE [attributes EXCEPT ![attrsObject(m, p)[1]] = getAttributes(m, p)]

(***************************************************************************)
(* parseNote: the children of a <note> element, then the tuplet and the    *)
(* default position of a rest.  err is "" when it returns and the name of  *)
(* the exception when it throws.                                           *)
(***************************************************************************)
\* The "tied" case: the tie, and what its default branch raises.  The
\* default branch evaluates Vex.RERR(...) as a plain call, with neither
\* "new" nor "throw": it raises nothing, unless tie is null, where
\* tie.toString() is a TypeError.
tieOf(tied) ==
  IF tied = None \/ tied[1] = None THEN None
  ELSE CASE tied[1][1] = "start" -> Some("begin")
         [] tied[1][1] = "continue" -> Some("continue")
         [] tied[1][1] = "stop" -> Some("end")
         [] OTHER -> None

tieError(tied) ==
  IF tied # None /\ tied[1] = None THEN "TypeError" ELSE ""

\* The "voice" and "staff" cases.
voiceOf(voice) ==
  IF voice # None /\ voice[1] # None THEN Some(voice[1][1]) ELSE None

staveOf(staff) ==
  IF staff # None /\ staff[1] # None /\ staff[1][1] > 0
  THEN Some(staff[1][1] - 1) ELSE None

\* The "pitch" and "rest" cases: noteObj.keys, <<>> while it is not set.
keysOf(noteElem) ==
  IF noteElem.pitch # None THEN <<noteElem.pitch[1]>>
  ELSE IF noteElem.rest # None /\ noteElem.rest[1] # None
  THEN <<noteElem.rest[1][1]>>
  ELSE <<>>

\* Set default rest position now that we know the stave.
restKeys(stave, attrs) ==
  LET clef == IF "clef" \notin DOMAIN attrs THEN "undefined"
              ELSE IF attrs["clef"].isArray
              THEN ArrayGet(attrs["clef"].v, stave)
              ELSE attrs["clef"].v[1]
  IN IF clef = "bass" THEN <<"D/3">> ELSE <<"B/4">>

parseNote(noteElem, attrs) ==
  LET rest == noteElem.rest # None
      stave == staveOf(noteElem.staff)
      keys == keysOf(noteElem)
  IN [rest |-> rest,
      chord |-> noteElem.chord,
      keys |-> IF rest /\ keys = <<>> THEN restKeys(stave, attrs) ELSE keys,
      voice |-> voiceOf(noteElem.voice),
      stave |-> stave,
      tie |-> tieOf(noteElem.tied),
      err |-> tieError(noteElem.tied)]

(***************************************************************************)
(* The measure model the backend fills (Vex.Flow.Measure, its Part and     *)
(* Voice): a part's voices are a sequence indexed by the raw voice number; *)
(* an empty slot and a voice without notes are both EmptyVoice.            *)
(***************************************************************************)
EmptyVoice == [stave |-> None, notes |-> <<>>]

\* new Vex.Flow.Measure.Part(options): a single, empty voice.
NewPartVoices == <<EmptyVoice>>

\* part.setNumberOfVoices(n): exactly n voices are kept.
setNumberOfVoices(voices, n) ==
  [k \in 1..n |-> IF k <= Len(voices) THEN voices[k] ELSE EmptyVoice]

\* part.getVoice(voiceNum) creates the voice when it is missing.
withVoice(voices, voiceNum) ==
  IF voiceNum < Len(voices) THEN voices
  ELSE setNumberOfVoices(voices, voiceNum + 1)

\* new Vex.Flow.Measure.Note(noteObj)
NewNote(noteObj) ==
  [keys |-> noteObj.keys, rest |-> noteObj.rest, stave |-> noteObj.stave,
   tie |-> noteObj.tie]

(***************************************************************************)
(* getMeasure                                                              *)
(***************************************************************************)
\* var time = {num_beats: 4, beat_value: 4}
time == [num_beats |-> 4, beat_value |-> 4]

\* var numVoices = 1, never assigned again.
numVoices == 1

\* One turn of the loop over the <note> elements; acc = [voices, err].
routeNote(acc, noteElem, attrs) ==
  IF acc.err # "" THEN acc
  ELSE
    LET noteObj == parseNote(noteElem, attrs)
        hasVoice == noteObj.voice # None /\ noteObj.voice[1] # 0
        voiceNum == IF hasVoice THEN noteObj.voice[1] ELSE 0
        v1 == IF hasVoice /\ voiceNum >= numVoices
              THEN setNumberOfVoices(acc.voices, voiceNum + 1)
              ELSE acc.voices
        v2 == withVoice(v1, voiceNum)
        voice == v2[voiceNum + 1]
        v3 == IF Len(voice.notes) = 0 /\ noteObj.stave # None
              THEN [v2 EXCEPT ![voiceNum + 1].stave = noteObj.stave]
              ELSE v2
        n == Len(voice.notes)
    IN IF noteObj.err # "" THEN [acc EXCEPT !.err = noteObj.err]
       ELSE IF noteObj.chord
       THEN IF n = 0
            THEN \* voice.notes[-1] is undefined
                 [voices |-> v3, err |-> "TypeError"]
            ELSE [voices |->
                    [v3 EXCEPT ![voiceNum + 1].notes[n].keys =
                                 Append(@, noteObj.keys[1])],
                  err |-> ""]
       ELSE [voices |->
               [v3 EXCEPT ![voiceNum + 1].notes = Append(@, NewNote(noteObj))],
             err |-> ""]

RECURSIVE routeNotes(_, _, _, _)
routeNotes(acc, noteElems, attrs, i) ==
  IF i > Len(noteElems) THEN acc
  ELSE routeNotes(routeNote(acc, noteElems[i], attrs), noteElems, attrs, i + 1)

\* Copy part and number voices correctly: the voices with notes, in the
\* order of their raw numbers.
RECURSIVE compactFrom(_, _)
compactFrom(voices, i) ==
  IF i > Len(voices) THEN <<>>
  ELSE (IF Len(voices[i].notes) > 0 THEN <<voices[i]>> ELSE <<>>)
       \o compactFrom(voices, i + 1)

compactVoices(voices) == compactFrom(voices, 1)

\* this.measures[m][p].getElementsByTagName("note")
noteElemsOf(m, p) ==
  LET at == measures[m + 1][p + 1]
  IN doc.childNodes[at[1] + 1].childNodes[at[2] + 1].notes

\* The part p of measure m, as getMeasure leaves it.
measurePart(m, p) ==
  LET attrs == getAttributes(m, p)
      hasClef == "clef" \in DOMAIN attrs
      routed == routeNotes([voices |-> NewPartVoices, err |-> ""],
                           noteElemsOf(m, p), attrs, 1)
  IN [err |-> routed.err,
      time |-> time,
      clef |-> IF hasClef /\ ~attrs["clef"].isArray
                          /\ attrs["clef"].v[1] # "null"
               THEN Some(attrs["clef"].v[1]) ELSE None,
      numStaves |-> numStaves[p],
      staves |-> IF hasClef /\ attrs["clef"].isArray
                 THEN [s \in 1..numStaves[p] |->
                         ArrayGet(attrs["clef"].v, Some(s - 1))]
                 ELSE <<>>,
      voices |-> compactVoices(routed.voices)]

Thrown(e) == [err |-> e, time |-> time, parts |-> <<>>]

getMeasure(m) ==
  IF m >= Len(measures)
  THEN \* this.measures[m] is undefined
       Thrown("TypeError")
  ELSE LET numParts == Len(measures[m + 1])
           parts == [k \in 1..numParts |-> measurePart(m, k - 1)]
           bad == {k \in 1..numParts : parts[k].err # ""}
       IN IF bad # {}
          THEN Thrown(parts[CHOOSE k \in bad : \A l \in bad : k <= l].err)
          ELSE [err |-> "", time |-> time, parts |-> parts]

\* this.attributes once getMeasure(m) has run.
attributesAfterMeasure(m) ==
  IF m >= Len(measures) THEN attributes
  ELSE [at \in DOMAIN attributes |->
          IF at[2] < Len(measures[m + 1]) THEN attributesAfter(m, at[2])[at]
          ELSE attributes[at]]

(***************************************************************************)
(* The documents explored.                                                 *)
(***************************************************************************)
\* Parts whose children are measures without content and other nodes, in
\* any order; one part (the k-th) may differ from the others.
ChildSeqs == SeqsUpTo({TextNode, MeasureNode(None, <<>>)}, MaxChildren)

GridDocs ==
  {Document("score-partwise",
            <<PartListNode>> \o
            [q \in 1..n |-> PartNode(IF q = k THEN c1 ELSE c0)]) :
     n \in 1..MaxParts, k \in 1..MaxParts, c0 \in ChildSeqs, c1 \in ChildSeqs}
  \cup {Document("score-timewise", <<>>)}

\* Parts of MaxMeasures measures; the measures of one part (the first or
\* the last) carry any of Blocks, the measures of the others all carry the
\* same block.
Blocks ==
  {None,
   Some(<<StavesElem(2), ClefElem(Some(1), "G", 2), ClefElem(Some(2), "F", 4),
          TimeElem(3, 4)>>),
   Some(<<ClefElem(Some(1), "F", 4)>>),
   Some(<<TimeElem(4, 4), DivisionsElem(4)>>),
   Some(<<ClefElem(None, "F", 4), KeyElem(2), TransposeElem>>)}

OtherBlocks ==
  {None,
   Some(<<TimeElem(2, 2), ClefElem(None, "G", 2), DivisionsElem(1),
          KeyElem(-3)>>)}

PlainRest == NoteElem(None, Some(None), FALSE, None, None, None)

AttrDocs ==
  {Document("score-partwise",
            [q \in 1..MaxParts |->
               PartNode([j \in 1..MaxMeasures |->
                           MeasureNode(IF q = k THEN f[j] ELSE ob,
                                       <<PlainRest>>)])]) :
     k \in {1, MaxParts}, f \in [1..MaxMeasures -> Blocks],
     ob \in OtherBlocks}

\* One part of one measure: pitched notes, each with its own pitch, in any
\* voices and staves, some of them chord notes.
Pitches == <<"C/4", "D/4", "E/4", "F/4", "G/4", "A/4", "B/4">>

VoiceKinds ==
  [voice : {None, Some(Some(0)), Some(Some(2)), Some(Some(5))},
   chord : BOOLEAN,
   staff : {None, Some(Some(2))}]

OneMeasure(attrs, notes) ==
  Document("score-partwise", <<PartNode(<<MeasureNode(attrs, notes)>>)>>)

VoiceDocs ==
  {OneMeasure(None,
              [i \in 1..Len(ks) |->
                 NoteElem(Some(Pitches[i]), None, ks[i].chord, ks[i].voice,
                          ks[i].staff, None)]) :
     ks \in SeqsUpTo(VoiceKinds, MaxNotes) \ {<<>>}}

\* One part of one measure holding one note or rest, under a clef.
ClefBlocks ==
  {None,
   Some(<<ClefElem(None, "F", 4)>>),
   Some(<<ClefElem(None, "G", 2)>>),
   Some(<<ClefElem(None, "C", 3)>>),
   Some(<<StavesElem(2), ClefElem(Some(1), "F", 4), ClefElem(Some(2), "G", 2)>>),
   Some(<<StavesElem(2), ClefElem(Some(1), "G", 2), ClefElem(Some(2), "F", 4)>>)}

SingleNotes ==
  {NoteElem(pr[1], pr[2], FALSE, v, s, t) :
     pr \in {<<Some("C/4"), None>>, <<None, Some(None)>>,
             <<None, Some(Some("E/4"))>>},
     v \in {None, Some(None)},
     s \in {None, Some(None), Some(Some(0)), Some(Some(1)), Some(Some(2))},
     t \in {None, Some(None), Some(Some("start")), Some(Some("continue")),
            Some(Some("stop")), Some(Some("let-ring"))}}

RestDocs == {OneMeasure(b, <<n>>) : b \in ClefBlocks, n \in SingleNotes}

(***************************************************************************)
(* The state machine: a backend object, the document handed to parse, and  *)
(* the calls made on it.  last is the last call of getMeasure or of        *)
(* getAttributes with what it returned; first is the first call of         *)
(* getMeasure with what it returned.                                       *)
(***************************************************************************)
NoCall ==
  [op |-> "none", m |-> 0, p |-> 0, measure |-> Thrown(""), attrs |-> <<>>,
   again |-> FALSE]

\* The constructor: empty arrays, this.valid not yet set.
Constructed ==
  /\ pc = "new"
  /\ measures = <<>>
  /\ numStaves = <<>>
  /\ attributes = <<>>
  /\ valid = "undefined"
  /\ last = NoCall
  /\ first = None

InitGrid == doc \in GridDocs /\ Constructed
InitAttrs == doc \in AttrDocs /\ Constructed
InitNotes == doc \in VoiceDocs \cup RestDocs /\ Constructed

Parse ==
  /\ pc = "new"
  /\ IF doc.nodeName # "score-partwise"
     THEN \* throw new Vex.RERR("ArgumentError", ...)
          /\ pc' = "thrown"
          /\ UNCHANGED <<measures, numStaves, attributes, valid>>
     ELSE LET st == parse(doc)
          IN /\ pc' = "parsed"
             /\ measures' = st.measures
             /\ numStaves' = st.numStaves
             /\ attributes' = st.attributes
             /\ valid' = IF st.returned THEN "false" ELSE "true"
  /\ UNCHANGED <<doc, last, first>>

\* isValid()
isValid == valid

\* getNumberOfMeasures()
getNumberOfMeasures == Len(measures)

\* A caller checks isValid() before it asks for measures.
GetMeasure(m) ==
  /\ pc = "parsed"
  /\ isValid = "true"
  /\ last' = [op |-> "getMeasure", m |-> m, p |-> 0, measure |-> getMeasure(m),
              attrs |-> <<>>,
              again |-> first # None /\ first[1].m = m]
  /\ first' = IF first = None
              THEN Some([m |-> m, measure |-> last'.measure])
              ELSE first
  /\ attributes' = attributesAfterMeasure(m)
  /\ UNCHANGED <<doc, pc, measures, numStaves, valid>>

GetAttributes(m, p) ==
  /\ pc = "parsed"
  /\ isValid = "true"
  /\ last' = [op |-> "getAttributes", m |-> m, p |-> p,
              measure |-> Thrown(""), attrs |-> getAttributes(m, p),
              again |-> FALSE]
  /\ attributes' = attributesAfter(m, p)
  /\ UNCHANGED <<doc, pc, measures, numStaves, valid, first>>

Next ==
  \/ Parse
  \/ \E m \in 0..(Len(measures) - 1) : GetMeasure(m)
  \/ \E m \in 0..(Len(measures) - 1),
        p \in 0..(Cardinality(DOMAIN numStaves) - 1) : GetAttributes(m, p)

SpecGrid == InitGrid /\ [][Next]_vars
SpecAttrs == InitAttrs /\ [][Next]_vars
SpecNotes == InitNotes /\ [][Next]_vars

(***************************************************************************)
(* What the document says, read off the DOM without the backend.           *)
(***************************************************************************)
\* The 0-based indices of the children of `nodes` named `name`, in order.
RECURSIVE IndicesFrom(_, _, _)
IndicesFrom(nodes, name, k) ==
  IF k > Len(nodes) THEN <<>>
  ELSE (IF nodes[k].nodeName = name THEN <<k - 1>> ELSE <<>>)
       \o IndicesFrom(nodes, name, k + 1)

IndicesOf(nodes, name) == IndicesFrom(nodes, name, 1)

PartIndices == IndicesOf(doc.childNodes, "part")
NumParts == Len(PartIndices)
PartOf(p) == doc.childNodes[PartIndices[p + 1] + 1]
MeasureIndices(p) == IndicesOf(PartOf(p).childNodes, "measure")
MeasureCount(p) == Len(MeasureIndices(p))
MeasureOf(p, m) == PartOf(p).childNodes[MeasureIndices(p)[m + 1] + 1]

\* The part p of the last getMeasure call, and the <note> elements of it.
LastParts == 0..(Len(measures[last.m + 1]) - 1)
LastNotes(p) == noteElemsOf(last.m, p)
Events(part) ==
  UNION {{part.voices[v].notes[n] : n \in 1..Len(part.voices[v].notes)} :
           v \in 1..Len(part.voices)}
Range(seq) == {seq[k] : k \in 1..Len(seq)}

(***************************************************************************)
(* C1: after parse() of a partwise document in which two parts hold a      *)
(* different number of measure elements, isValid() is not true.            *)
(***************************************************************************)
C1_UnequalPartsAreInvalid ==
  (/\ pc = "parsed"
   /\ \E a \in 0..(NumParts - 1), b \in 0..(NumParts - 1) :
        MeasureCount(a) # MeasureCount(b))
  => isValid # "true"

(***************************************************************************)
(* C2: when all parts hold the same number n of measure elements, whatever *)
(* other nodes lie among them, parse() ends with isValid() true,           *)
(* getNumberOfMeasures() = n and measures[m][p] the m-th measure element   *)
(* of part p.                                                              *)
(***************************************************************************)
C2_EqualPartsFillTheGrid ==
  (/\ pc = "parsed"
   /\ NumParts >= 1
   /\ \A a \in 0..(NumParts - 1) : MeasureCount(a) = MeasureCount(0))
  => /\ isValid = "true"
     /\ getNumberOfMeasures = MeasureCount(0)
     /\ \A m \in 0..(MeasureCount(0) - 1), p \in 0..(NumParts - 1) :
          /\ Len(measures[m + 1]) = NumParts
          /\ measures[m + 1][p + 1] = <<PartIndices[p + 1], MeasureIndices(p)[m + 1]>>

(***************************************************************************)
(* C3: getAttributes(m, p)[f], for f among divisions, key, time and clef,  *)
(* is the value of f in the snapshot of part p with the greatest measure   *)
(* index i <= m that set f, and absent when there is none; the snapshots   *)
(* of other parts and of later measures play no part.                      *)
(***************************************************************************)
AttributeFields == {"divisions", "key", "time", "clef"}

Setters(m, p, f) ==
  {i \in 0..m : /\ <<i, p>> \in DOMAIN attributes
                /\ f \in DOMAIN attributes[<<i, p>>]}

C3_NearestEarlierSnapshot ==
  last.op = "getAttributes" =>
    \A f \in AttributeFields :
      IF Setters(last.m, last.p, f) = {}
      THEN f \notin DOMAIN last.attrs
      ELSE /\ f \in DOMAIN last.attrs
           /\ last.attrs[f] =
                attributes[<<Max(Setters(last.m, last.p, f)), last.p>>][f]

\* getAttributes(1, p) answered time 3/4 from measure 0 while measure 2 of
\* the part sets 4/4 and another part sets 2/2.
C3_Witness ==
  /\ last.op = "getAttributes"
  /\ last.m = 1
  /\ "time" \in DOMAIN last.attrs
  /\ last.attrs["time"] = [num_beats |-> 3, beat_value |-> 4]
  /\ Setters(1, last.p, "time") = {0}
  /\ 2 \in Setters(2, last.p, "time")
  /\ attributes[<<2, last.p>>]["time"] = [num_beats |-> 4, beat_value |-> 4]
  /\ \E q \in 0..(NumParts - 1) :
       q # last.p /\ Setters(1, q, "time") # {}

(***************************************************************************)
(* C8: the measure getMeasure(m) returns exposes, in each of its parts p,  *)
(* the declared time signature: the time of getAttributes(m, p).           *)
(***************************************************************************)
C8_DeclaredTimeSignature ==
  (last.op = "getMeasure" /\ last.measure.err = "") =>
    \A p \in LastParts :
      "time" \in DOMAIN getAttributes(last.m, p) =>
        last.measure.parts[p + 1].time = getAttributes(last.m, p)["time"]

(***************************************************************************)
(* C9: per-staff clefs persist across measures.  In a part of k >= 2       *)
(* staves whose measure 0 gives every staff a clef by numbered clef        *)
(* elements, and whose clef elements are all numbered, the clef array of   *)
(* getAttributes(m, p) holds at every staff index the clef most recently   *)
(* declared for that staff at or before measure m.                         *)
(***************************************************************************)
BlockOf(p, i) ==
  IF MeasureOf(p, i).attributes = None THEN <<>>
  ELSE MeasureOf(p, i).attributes[1]

\* Where, up to measure m, part p declares a clef for staff s (0-based).
ClefDecls(p, m, s) ==
  UNION {{<<i, e>> : e \in {e \in 1..Len(BlockOf(p, i)) :
                              /\ BlockOf(p, i)[e].nodeName = "clef"
                              /\ BlockOf(p, i)[e].number = Some(s + 1)}} :
           i \in 0..m}

LastClefDecl(p, m, s) ==
  LET x == CHOOSE x \in ClefDecls(p, m, s) :
             \A y \in ClefDecls(p, m, s) :
               y[1] < x[1] \/ (y[1] = x[1] /\ y[2] <= x[2])
  IN clefName(BlockOf(p, x[1])[x[2]].sign, BlockOf(p, x[1])[x[2]].a)

OnlyNumberedClefs(p, m) ==
  \A i \in 0..m :
    \A e \in 1..Len(BlockOf(p, i)) :
      BlockOf(p, i)[e].nodeName = "clef" => BlockOf(p, i)[e].number # None

C9_PerStaffClefsPersist ==
  (/\ last.op = "getAttributes"
   /\ numStaves[last.p] >= 2
   /\ OnlyNumberedClefs(last.p, last.m)
   /\ \A s \in 0..(numStaves[last.p] - 1) : ClefDecls(last.p, 0, s) # {})
  => /\ "clef" \in DOMAIN last.attrs
     /\ last.attrs["clef"].isArray
     /\ \A s \in 0..(numStaves[last.p] - 1) :
          ArrayGet(last.attrs["clef"].v, Some(s)) =
            LastClefDecl(last.p, last.m, s)

(***************************************************************************)
(* C10: once parse() has finished with a valid document, no call of        *)
(* getMeasure or getAttributes changes the grid, numStaves, the stored     *)
(* snapshots or the validity flag, and getMeasure(m) called again returns  *)
(* what its first call returned.                                           *)
(***************************************************************************)
C10_CallsLeaveIngestedState ==
  [][(pc = "parsed" /\ isValid = "true") =>
       /\ UNCHANGED <<measures, numStaves, attributes, valid>>
       /\ (last'.op = "getMeasure" /\ first # None /\ first[1].m = last'.m)
            => last'.measure = first[1].measure]_vars

\* getMeasure(m) was called again, after other calls, on a document that
\* stores a per-staff clef array and a later snapshot for the same part.
C10_Witness ==
  /\ last.op = "getMeasure"
  /\ last.again
  /\ last.measure.err = ""
  /\ \E at \in DOMAIN attributes :
       /\ "clef" \in DOMAIN attributes[at]
       /\ attributes[at]["clef"].isArray
       /\ \E i \in 0..MaxMeasures : i > at[1] /\ <<i, at[2]>> \in DOMAIN attributes

(***************************************************************************)
(* C4: a note element carrying the chord marker never creates an event and *)
(* never makes getMeasure fail; its key is appended to the keys of the     *)
(* event of the nearest preceding non-chord note element, whatever the     *)
(* voices of the two.  (Every note of these measures has its own pitch, so *)
(* an event is known by its first key.)                                    *)
(***************************************************************************)
ChordIndices(ns) == {k \in 1..Len(ns) : ns[k].chord}
PrecedingNote(ns, k) == Max({j \in 1..(k - 1) : ~ns[j].chord})
Untied(ns) == \A k \in 1..Len(ns) : ns[k].tied = None
Pitched(ns) == \A k \in 1..Len(ns) : ns[k].pitch # None

C4_ChordJoinsPrecedingNote ==
  last.op = "getMeasure" =>
    \A p \in LastParts :
      (/\ ChordIndices(LastNotes(p)) # {}
       /\ ~LastNotes(p)[1].chord
       /\ Untied(LastNotes(p))
       /\ Pitched(LastNotes(p)))
      => /\ last.measure.err = ""
         /\ \A k \in ChordIndices(LastNotes(p)) :
              \A e \in Events(last.measure.parts[p + 1]) :
                /\ e.keys[1] # LastNotes(p)[k].pitch[1]
                /\ e.keys[1] =
                     LastNotes(p)[PrecedingNote(LastNotes(p), k)].pitch[1]
                   => LastNotes(p)[k].pitch[1] \in Range(e.keys)

(***************************************************************************)
(* C5: the voices getMeasure returns for a part are the raw voices that    *)
(* received a note, in ascending order of raw id, each with all of its     *)
(* notes in document order and with the staff of its first note as hint,   *)
(* whatever the order in which the raw ids occur.                          *)
(***************************************************************************)
RawVoice(noteElem) ==
  IF noteElem.voice # None /\ noteElem.voice[1] # None
  THEN noteElem.voice[1][1] ELSE 0

RawVoices(ns) == {RawVoice(ns[k]) : k \in 1..Len(ns)}

\* The r-th (from 1) raw id in ascending order.
NthVoice(ns, r) ==
  CHOOSE id \in RawVoices(ns) :
    Cardinality({x \in RawVoices(ns) : x < id}) = r - 1

RECURSIVE NotesOfVoiceFrom(_, _, _)
NotesOfVoiceFrom(ns, id, k) ==
  IF k > Len(ns) THEN <<>>
  ELSE (IF RawVoice(ns[k]) = id THEN <<ns[k]>> ELSE <<>>)
       \o NotesOfVoiceFrom(ns, id, k + 1)

NotesOfVoice(ns, id) == NotesOfVoiceFrom(ns, id, 1)

StaffHint(noteElem) ==
  IF noteElem.staff # None /\ noteElem.staff[1] # None
     /\ noteElem.staff[1][1] > 0
  THEN Some(noteElem.staff[1][1] - 1) ELSE None

C5_VoicesCompactInOrder ==
  last.op = "getMeasure" =>
    \A p \in LastParts :
      (/\ Len(LastNotes(p)) > 0
       /\ ChordIndices(LastNotes(p)) = {}
       /\ Untied(LastNotes(p))
       /\ Pitched(LastNotes(p)))
      => /\ last.measure.err = ""
         /\ Len(last.measure.parts[p + 1].voices) =
              Cardinality(RawVoices(LastNotes(p)))
         /\ \A r \in 1..Cardinality(RawVoices(LastNotes(p))) :
              LET want == NotesOfVoice(LastNotes(p), NthVoice(LastNotes(p), r))
                  got == last.measure.parts[p + 1].voices[r]
              IN /\ [k \in 1..Len(got.notes) |-> got.notes[k].keys] =
                      [k \in 1..Len(want) |-> <<want[k].pitch[1]>>]
                 /\ got.stave = StaffHint(want[1])

(***************************************************************************)
(* C6: a tied element of type start, continue or stop gives the event the  *)
(* tie begin, continue or end; any other type makes the decoding fail, so  *)
(* that getMeasure fails and returns no event.                             *)
(***************************************************************************)
TieNames == ("start" :> "begin") @@ ("continue" :> "continue") @@ ("stop" :> "end")

C6_TieOrFormatError ==
  last.op = "getMeasure" =>
    \A p \in LastParts :
      (/\ Len(LastNotes(p)) = 1
       /\ LastNotes(p)[1].tied # None
       /\ LastNotes(p)[1].tied[1] # None)
      => IF LastNotes(p)[1].tied[1][1] \in DOMAIN TieNames
         THEN /\ last.measure.err = ""
              /\ last.measure.parts[p + 1].voices[1].notes[1].tie =
                   Some(TieNames[LastNotes(p)[1].tied[1][1]])
         ELSE last.measure.err # ""

(***************************************************************************)
(* C7: a rest without display step/octave gets the key "D/3" when the clef *)
(* in force for its staff is bass and "B/4" otherwise, its staff being the *)
(* 0-based staff index, 0 when the staff element is absent, not a number   *)
(* or not positive; the clef in force is the scalar clef, or the element   *)
(* of the per-staff array at that index.                                   *)
(***************************************************************************)
StaffIndex(noteElem) ==
  IF noteElem.staff # None /\ noteElem.staff[1] # None
     /\ noteElem.staff[1][1] > 0
  THEN noteElem.staff[1][1] - 1 ELSE 0

ClefInForce(attrs, s) ==
  IF "clef" \notin DOMAIN attrs THEN "undefined"
  ELSE IF attrs["clef"].isArray THEN ArrayGet(attrs["clef"].v, Some(s))
  ELSE attrs["clef"].v[1]

C7_RestDefaultPosition ==
  (last.op = "getMeasure" /\ last.measure.err = "") =>
    \A p \in LastParts :
      (/\ Len(LastNotes(p)) = 1
       /\ LastNotes(p)[1].rest = Some(None)
       /\ LastNotes(p)[1].pitch = None)
      => last.measure.parts[p + 1].voices[1].notes[1].keys =
           IF ClefInForce(getAttributes(last.m, p),
                          StaffIndex(LastNotes(p)[1])) = "bass"
           THEN <<"D/3">> ELSE <<"B/4">>

====
